---- MODULE Spec2Model ----
(***************************************************************************)
(* Model of the round routes (server/routes/rounds.js, here                *)
(* src/unnamed/part_002), the Round schema (src/server/models/Round.js)     *)
(* and the socket emitters (src/server/swagger.js).                         *)
(*                                                                          *)
(* Every handler is an async function: it runs atomically between two       *)
(* awaits.  The awaits are Round.findOne (first step of the handler) and    *)
(* round.save().  A handler is therefore three steps: the read with all the *)
(* checks and the local changes to the loaded document, the save executed   *)
(* by the store, and the continuation that emits and answers.               *)
(*                                                                          *)
(* round.save() is Mongoose's Document#save: it sends the paths modified on *)
(* the loaded document ($set of players.<i>.userId, of players.<i>.scores   *)
(* or of players.<i>.scores.<h>), never the whole document.  An update that *)
(* addresses an array element by position carries the version the document  *)
(* was loaded with (__v) in its filter; an update that replaces or grows an *)
(* array also increments __v.  A filter that matches nothing is a           *)
(* VersionError, which the handler's catch turns into a 500.                *)
(*                                                                          *)
(* The continuation of a handler emits its event to the room of the round:  *)
(* one packet to every socket connection that has joined the room.  The     *)
(* packets of a connection reach its client in the order they were sent;    *)
(* the client (src/unnamed/part_000) applies each score-update to the       *)
(* players it shows.                                                        *)
(***************************************************************************)
EXTENDS Bags, FiniteSets, Integers, Sequences, TLC

-----------------------------------------------------------------------------
(* Bounds *)
NumUsers == 3        \* identities; identity 1 created the round
NumPlayers == 2      \* player slots of the round
MaxReqs == 2         \* requests in flight at once
MaxHole == 1         \* largest in-range hole index the requests use
NumConns == 2        \* socket connections; connection c is identity c's
MaxEvents == 2       \* score updates started in a run of the room protocol
MaxRounds == 3       \* rounds in the collection
MaxTries == 2        \* collisions of one code allocation that the model follows
MaxEdits == 2        \* largest version (__v) a round has when an edit starts

-----------------------------------------------------------------------------
(* Program constants *)
NoUser == 0          \* userId: null
Holes9 == 9
Holes18 == 18

Users == 1 .. NumUsers
Owner == 1
\* the _id values: of the round stored at the start, and of every round
FirstId == "r1"
AllIds == {"r" \o ToString(k) : k \in 1 .. MaxRounds}
NoSuchId == "nope"
Conns == 1 .. NumConns
\* the players of the client before it opens a round:
\* useState([{ name: '', scores: Array(18).fill(0) }])
NoPlayers == <<[h \in 1 .. Holes18 |-> 0]>>

-----------------------------------------------------------------------------
(* JavaScript values that reach the handlers as indices and scores.        *)
(* Frac(n) is the number n + 1/2, Str a non-numeric string such as "abc",   *)
(* Undef a missing field.                                                   *)
Whole(n) == [t |-> "int", n |-> n]
Frac(n) == [t |-> "frac", n |-> n]
Str == [t |-> "str", n |-> 0]
Undef == [t |-> "undefined", n |-> 0]
NaN == [t |-> "nan", n |-> 0]

IsNum(x) == x.t \in {"int", "frac"}
\* x < k and x >= k for an integer k, as JavaScript compares them: a
\* comparison with undefined, NaN or a non-numeric string is false
JsLt(x, k) == IsNum(x) /\ x.n < k
JsGe(x, k) == IsNum(x) /\ x.n >= k
\* k <= x
JsLe(k, x) == IsNum(x) /\ k <= x.n
\* arr[x]: defined only for an integer index inside the array
HasIndex(arr, x) == x.t = "int" /\ x.n >= 0 /\ x.n < Len(arr)

\* parseInt(x, 10)
parseInt(x) ==
  CASE x.t = "int" -> x
    [] x.t = "frac" -> Whole(x.n)
    [] OTHER -> NaN

\* parseInt(score, 10) || 1
parseScoreOne(x) ==
  LET p == parseInt(x) IN IF p.t = "int" THEN p.n ELSE 1

\* parseInt(score, 10) || 0
parseScore(x) ==
  LET p == parseInt(x) IN IF p.t = "int" THEN p.n ELSE 0

-----------------------------------------------------------------------------
(* Share codes: strings as sequences of characters *)
UpperChar(c) ==
  CASE c = "a" -> "A"
    [] c = "b" -> "B"
    [] c = "c" -> "C"
    [] OTHER -> c

\* the string as it is
toUpperCaseNot(s) == s

toUpperCase(s) == [i \in DOMAIN s |-> UpperChar(s[i])]

Code1 == <<"A", "B", "C", "2", "3", "4">>
Code2 == <<"A", "B", "C", "2", "3", "5">>
\* shareCode: null
NoCode == <<>>
\* const chars = 'ABCDEFGHJKLMNPQRSTUVWXYZ23456789'
chars ==
  << "A", "B", "C", "D", "E", "F", "G", "H", "J", "K", "L", "M", "N", "P",
     "Q", "R", "S", "T", "U", "V", "W", "X", "Y", "Z", "2", "3", "4", "5",
     "6", "7", "8", "9" >>
CodeLength == 6
\* Math.random() returns num / RandomDen for a num in 0 .. RandomDen - 1: a
\* number in [0, 1)
RandomDen == 64

\* s.charAt(k): the empty string outside the string
charAt(s, k) == IF k >= 0 /\ k < Len(s) THEN s[k + 1] ELSE ""

\* Math.ceil(Math.random() * n)
MathCeil(num, n) == (num * n + RandomDen - 1) \div RandomDen

\* Math.floor(Math.random() * n)
MathFloor(num, n) == (num * n) \div RandomDen

\* code += c
Concat(code, c) == IF c = "" THEN code ELSE Append(code, c)

\* for (let i = 0; i < 6; i += 1) code += chars.charAt(...), from turn i on
RECURSIVE generateLoop(_, _, _)
generateLoop(code, i, rnd) ==
  IF i < CodeLength
  THEN generateLoop(Concat(code, charAt(chars, MathFloor(rnd[i + 1], Len(chars)))),
                    i + 1, rnd)
  ELSE code

\* generateCode(), rnd the six numbers Math.random() returns
generateCode(rnd) == generateLoop(<<>>, 0, rnd)

\* the draws of Math.random() that give Code1 and Code2
CodeDraws == {<<0, 2, 4, 48, 50, 52>>, <<0, 2, 4, 48, 50, 54>>}
CodeInputs ==
  { [def |-> TRUE, s |-> Code1],
    [def |-> TRUE, s |-> <<"a", "b", "c", "2", "3", "4">>],
    [def |-> TRUE, s |-> <<"A", "B", "C", "2", "3", "5">>],
    [def |-> TRUE, s |-> <<>>],
    [def |-> FALSE, s |-> <<>>] }

-----------------------------------------------------------------------------
(* Error strings of the handlers *)
ErrRequired == "Share code and player index required"
ErrInvalidCode == "Invalid share code"
ErrInvalidSlot == "Invalid player slot"
ErrSlotTaken == "This slot is already claimed"
ErrDuplicateClaim == "You already have a slot in this round"
ErrNotFound == "Round not found"
ErrNotFoundOrAuth == "Round not found or not authorized"
ErrInvalidPlayer == "Invalid player index"
ErrUnauthorized == "Not authorized to update this score"
ErrInvalidHole == "Invalid hole index"
ErrTypeRead == "Cannot read properties of undefined (reading 'userId')"
ErrTypeSet == "Cannot set properties of undefined (setting 'userId')"
ErrVersion == "VersionError"
ErrHoles == "Round validation failed: holes: Round must have 9 or 18 holes"
ErrPlayers == "Round validation failed: players: Round must have 1 to 4 players"
ErrHolesPlayers == "Round validation failed: holes: Round must have 9 or 18 holes, players: Round must have 1 to 4 players"
ErrDuplicateKey == "E11000 duplicate key error"
ErrUnavailable == "connection timed out"
ErrAuthRequired == "Authentication required"
ErrInvalidToken == "Invalid token"

-----------------------------------------------------------------------------
VARIABLES
  rounds,     \* the rounds collection: id -> stored document
  inflight,   \* bag of requests between their read and their response
  resp,       \* the HTTP response sent by the last step (status 0: none)
  emitted,    \* the socket events emitted by the last step
  lastVacated, \* history: per round and slot, the identity removed by the
              \* last committed vacate (NoUser if none)
  rooms,      \* per socket connection, the room ids it has joined
  wire,       \* per socket connection, the packets sent and not yet received
  clientPlayers, \* per connection, the scores its client shows (`players`)
  published,  \* history: number of events emitted to a room so far
  lastSeen,   \* history: per connection, the number of the last packet received
  sockets     \* per connection, the outcome of its handshake

sockVars == <<rooms, wire, clientPlayers, published, lastSeen, sockets>>
vars == <<rounds, inflight, resp, emitted, lastVacated, rooms, wire,
          clientPlayers, published, lastSeen, sockets>>

\* the _id values of the stored rounds, and the ids a request can name
RoundIds == DOMAIN rounds
IdInputs == RoundIds \cup {NoSuchId}

-----------------------------------------------------------------------------
(* Round schema *)
Player(name, scores) == [name |-> name, scores |-> scores, userId |-> NoUser]

PlayerName(i) == <<"P", i>>

\* POST / stores the players of the request body: names, and the scores the
\* creator has already entered (none, or the first hole of every player)
FirstScores(i, entered) == IF entered THEN <<i + 2>> ELSE <<>>

NewRound(nholes, nplayers, owner, code, entered) ==
  [ players |-> [i \in 1 .. nplayers |->
                   Player(PlayerName(i), FirstScores(i, entered))],
    holes |-> nholes,
    createdBy |-> owner,
    shareCode |-> code,
    v |-> 0 ]

\* a search of the slots of every stored round
findIndexUserAnyRound(players, u) ==
  LET held == {i \in 1 .. NumPlayers :
                 \E id \in DOMAIN rounds :
                   /\ i \in DOMAIN rounds[id].players
                   /\ rounds[id].players[i].userId = u}
  IN IF held # {}
     THEN (CHOOSE i \in held : \A j \in held : i <= j) - 1
     ELSE -1

\* players.findIndex(p => p.userId && p.userId.toString() === userId);
\* the result is a 0-based index or -1
findIndexUser(players, u) ==
  IF \E i \in DOMAIN players : players[i].userId = u
  THEN (CHOOSE i \in DOMAIN players :
          /\ players[i].userId = u
          /\ \A j \in DOMAIN players : players[j].userId = u => i <= j) - 1
  ELSE -1

-----------------------------------------------------------------------------
(* Requests and responses *)
NoDelta == [kind |-> "none", slot |-> 0, hole |-> 0, userId |-> NoUser,
            scores |-> <<>>, val |-> 0]
\* $set players.<slot>.userId
UserIdDelta(slot, u) == [NoDelta EXCEPT !.kind = "userId", !.slot = slot,
                                        !.userId = u]
\* $set players.<slot>.scores.<hole>
CellDelta(slot, hole, val) == [NoDelta EXCEPT !.kind = "cell", !.slot = slot,
                                              !.hole = hole, !.val = val]
\* $set players.<slot>.scores (the array grew)
ScoresDelta(slot, scores) == [NoDelta EXCEPT !.kind = "scores", !.slot = slot,
                                             !.scores = scores]

\* the new document of a create
InsertDelta(doc) == [kind |-> "insert", doc |-> doc]
\* $set shareCode
CodeDelta(code) == [kind |-> "code", code |-> code]
\* $set holes and/or $set players (whole arrays)
EditDelta(holes, players) == [kind |-> "edit", holes |-> holes, players |-> players]

\* an array of n elements in a request body
Arr(n) == [t |-> "array", n |-> n]
\* { holes, players } of a request body
Body(holes, players) == [holes |-> holes, players |-> players]
NoBody == Body(Undef, Undef)

\* what the handler keeps across `await round.save()`: its inputs, the version
\* (__v) of the document it loaded, the value and the player name it will
\* report from the loaded document, and the paths it modified on it; a
\* handler that allocates a share code also keeps the body of the request,
\* the code and (history) the number of codes it found taken
Request(op, u, id, pidx, hidx, val, round, name, delta) ==
  [ op |-> op, user |-> u, id |-> id, playerIndex |-> pidx,
    holeIndex |-> hidx, val |-> val, v |-> round.v, name |-> name,
    delta |-> delta, pc |-> "saving", error |-> "",
    body |-> NoBody, code |-> NoCode, tries |-> 0 ]

\* a response: the request it answers, the status, the error string of an
\* error response, the score of a 'Score updated' response and the shareCode
\* of a 'Share code generated' response
Response(op, u, id, pidx, hidx, status, error, score) ==
  [ op |-> op, user |-> u, id |-> id, playerIndex |-> pidx,
    holeIndex |-> hidx, status |-> status, error |-> error, score |-> score,
    code |-> NoCode ]

NoResp == Response("none", NoUser, NoSuchId, Undef, Undef, 0, "", 0)

Event(type, id, pidx, hidx, score, u, name) ==
  [ type |-> type, room |-> id, playerIndex |-> pidx, holeIndex |-> hidx,
    score |-> score, userId |-> u, playerName |-> name ]

\* the last response and its events have left the process
Quiet == resp.status = 0 /\ emitted = <<>>

Add(q) == inflight (+) SetToBag({q})
Replace(q, q2) == (inflight (-) SetToBag({q})) (+) SetToBag({q2})
Remove(q) == inflight (-) SetToBag({q})
CanStart == Quiet /\ BagCardinality(inflight) < MaxReqs

\* the handler answered before any save
Reject(op, u, id, pidx, hidx, status, error) ==
  /\ resp' = Response(op, u, id, pidx, hidx, status, error, 0)
  /\ emitted' = <<>>
  /\ UNCHANGED <<rounds, inflight>>

\* the handler reached `await round.save()`
Await(q) ==
  /\ inflight' = Add(q)
  /\ resp' = NoResp
  /\ emitted' = <<>>
  /\ UNCHANGED rounds

-----------------------------------------------------------------------------
(* Socket handshakes *)
\* socket.handshake.auth.token: missing, a string that jwt.verify rejects
\* (forged here: it names an identity without the server's signature), or a
\* token the server signed for an identity
NoToken == [kind |-> "none", userId |-> NoUser]
ForgedToken(u) == [kind |-> "forged", userId |-> u]
SignedToken(u) == [kind |-> "signed", userId |-> u]
TokenInputs ==
  {NoToken} \cup {ForgedToken(u) : u \in Users} \cup {SignedToken(u) : u \in Users}

\* a connection: never opened (or closed), refused by the middleware with an
\* error, or open with the identity of its token (socket.userId)
NoSocket == [state |-> "closed", userId |-> NoUser, error |-> ""]
RefusedSocket(error) == [state |-> "closed", userId |-> NoUser, error |-> error]
OpenSocket(u) == [state |-> "open", userId |-> u, error |-> ""]

-----------------------------------------------------------------------------
\* no request, no socket
InitRest ==
  /\ inflight = EmptyBag
  /\ resp = NoResp
  /\ emitted = <<>>
  /\ lastVacated = [id \in RoundIds |-> [i \in 1 .. NumPlayers |-> NoUser]]
  /\ rooms = [c \in Conns |-> {}]
  /\ wire = [c \in Conns |-> <<>>]
  /\ clientPlayers = [c \in Conns |-> NoPlayers]
  /\ published = 0
  /\ lastSeen = [c \in Conns |-> 0]
  /\ sockets = [c \in Conns |-> NoSocket]

InitStore ==
  /\ \E nholes \in {Holes9, Holes18}, entered \in BOOLEAN :
       rounds = [id \in {FirstId} |->
                   NewRound(nholes, NumPlayers, Owner, Code1, entered)]
  /\ InitRest

-----------------------------------------------------------------------------
(* Inputs of the requests *)
PlayerIndexInputs ==
  {Whole(k) : k \in -1 .. NumPlayers} \cup {Frac(0), Undef}
\* the :playerIndex path parameter is a string
PlayerParamInputs ==
  {Whole(k) : k \in -1 .. NumPlayers} \cup {Frac(0), Str}
HoleIndexInputs ==
  {Whole(k) : k \in -1 .. MaxHole} \cup {Whole(Holes9), Whole(Holes18), Frac(0), Undef}
ScoreInputs == {Whole(-1), Whole(0), Whole(1), Frac(1), Str, Undef}

-----------------------------------------------------------------------------
\* playerIndex < 0 || playerIndex >= round.players.length
invalidSlot(pidx, players) == JsLt(pidx, 0) \/ JsGe(pidx, Len(players))

\* the comparison the wrong way round
slotTakenInverted(player, u) == player.userId # NoUser /\ player.userId = u

\* player.userId && player.userId.toString() !== req.userId
slotTaken(player, u) == player.userId # NoUser /\ player.userId # u

\* existingSlot !== -1 && existingSlot !== playerIndex
duplicateClaim(existingSlot, pidx) ==
  existingSlot # -1 /\ existingSlot # pidx.n

\* the claim resets the scores of the player where it should bind the slot
claimDeltaScores(round, slot, u) == ScoresDelta(slot, <<>>)

\* round.players[playerIndex].userId = req.userId: the path is modified only
\* if the value changes
claimDelta(round, slot, u) ==
  IF round.players[slot].userId = u THEN NoDelta ELSE UserIdDelta(slot, u)

(* POST /join, up to `await round.save()` *)
PostJoin(u, code, pidx) ==
  LET upper == toUpperCase(code.s)
      found == {id \in RoundIds : rounds[id].shareCode = upper}
  IN
  /\ CanStart
  /\ IF ~code.def \/ code.s = <<>> \/ pidx.t = "undefined"
     THEN Reject("join", u, NoSuchId, pidx, Undef, 400, ErrRequired)
     ELSE IF found = {}
     THEN Reject("join", u, NoSuchId, pidx, Undef, 404, ErrInvalidCode)
     ELSE \E id \in found :
       LET round == rounds[id]
           slot == pidx.n + 1
           existingSlot == findIndexUser(round.players, u)
       IN
       IF invalidSlot(pidx, round.players)
       THEN Reject("join", u, id, pidx, Undef, 400, ErrInvalidSlot)
       ELSE IF ~HasIndex(round.players, pidx)
       THEN \* round.players[playerIndex] is undefined: TypeError, caught
            Reject("join", u, id, pidx, Undef, 500, ErrTypeRead)
       ELSE IF slotTaken(round.players[slot], u)
       THEN Reject("join", u, id, pidx, Undef, 400, ErrSlotTaken)
       ELSE IF duplicateClaim(existingSlot, pidx)
       THEN Reject("join", u, id, pidx, Undef, 400, ErrDuplicateClaim)
       ELSE Await(Request("join", u, id, pidx, Undef, 0, round,
                          round.players[slot].name,
                          claimDelta(round, slot, u)))

\* the :shareCode path parameter is a non-empty string
LookupCodeInputs == {code \in CodeInputs : code.def /\ code.s # <<>>}

\* a lookup that binds the caller to the first Open slot of the round
LookupClaims(u, code) ==
  LET upper == toUpperCase(code.s)
      found == {id \in RoundIds : rounds[id].shareCode = upper}
  IN
  /\ Quiet
  /\ IF found = {}
     THEN Reject("lookup", u, NoSuchId, Undef, Undef, 404, ErrInvalidCode)
     ELSE \E id \in found :
       /\ resp' = Response("lookup", u, id, Undef, Undef, 200, "", 0)
       /\ emitted' = <<>>
       /\ rounds' =
            IF findIndexUser(rounds[id].players, NoUser) # -1
            THEN [rounds EXCEPT
                    ![id].players[findIndexUser(rounds[id].players, NoUser) + 1]
                      .userId = u]
            ELSE rounds
       /\ UNCHANGED inflight

(* GET /lookup/:shareCode: the read and the answer with the round found *)
Lookup(u, code) ==
  LET upper == toUpperCase(code.s)
      found == {id \in RoundIds : rounds[id].shareCode = upper}
  IN
  /\ Quiet
  /\ IF found = {}
     THEN Reject("lookup", u, NoSuchId, Undef, Undef, 404, ErrInvalidCode)
     ELSE \E id \in found :
       /\ resp' = Response("lookup", u, id, Undef, Undef, 200, "", 0)
       /\ emitted' = <<>>
       /\ UNCHANGED <<rounds, inflight>>

\* the player's scores are reset where the userId should be
removeDeltaScores(round, slot) == ScoresDelta(slot, <<>>)

\* round.players[playerIndex].userId = null
removeDelta(round, slot) ==
  IF round.players[slot].userId = NoUser THEN NoDelta
  ELSE UserIdDelta(slot, NoUser)

\* a filter that also finds the round for the holder of a slot
createdByOrHolder(round, u) ==
  \/ round.createdBy = u
  \/ \E i \in DOMAIN round.players : round.players[i].userId = u

\* the filter of the findOne: { _id: req.params.id, createdBy: req.userId }
createdByFilter(round, u) == round.createdBy = u

(* DELETE /:id/players/:playerIndex, up to `await round.save()` *)
DeletePlayer(u, id, param) ==
  LET pidx == parseInt(param) IN
  /\ CanStart
  /\ IF ~(id \in RoundIds /\ createdByFilter(rounds[id], u))
     THEN Reject("remove", u, id, pidx, Undef, 404, ErrNotFoundOrAuth)
     ELSE
       LET round == rounds[id]
           slot == pidx.n + 1
       IN
       IF invalidSlot(pidx, round.players)
       THEN Reject("remove", u, id, pidx, Undef, 400, ErrInvalidPlayer)
       ELSE IF ~HasIndex(round.players, pidx)
       THEN \* round.players[NaN] is undefined: TypeError, caught
            Reject("remove", u, id, pidx, Undef, 500, ErrTypeSet)
       ELSE Await(Request("remove", u, id, pidx, Undef, 0, round, <<>>,
                          removeDelta(round, slot)))

\* while (scores.length <= holeIndex + 1) scores.push(0)
padScoresOneMore(scores, hidx) ==
  IF JsLe(Len(scores) - 1, hidx)
  THEN [h \in 1 .. hidx.n + 2 |-> IF h <= Len(scores) THEN scores[h] ELSE 0]
  ELSE scores

\* while (scores.length <= holeIndex) scores.push(0)
padScores(scores, hidx) ==
  IF JsLe(Len(scores), hidx)
  THEN [h \in 1 .. hidx.n + 1 |-> IF h <= Len(scores) THEN scores[h] ELSE 0]
  ELSE scores

\* a findOne by _id alone
anyUser(round, u) == TRUE

\* the filter of the findOne: $or: [{ createdBy }, { 'players.userId' }]
creatorOrParticipant(round, u) ==
  \/ round.createdBy = u
  \/ \E i \in DOMAIN round.players : round.players[i].userId = u

\* an ObjectId compared with a string
isAdminNever(round, u) == FALSE

\* round.createdBy.toString() === req.userId
isAdmin(round, u) == round.createdBy = u

\* every claimed slot is open to every participant
notAuthorizedOpenOnly(round, player, u) ==
  ~isAdmin(round, u) /\ player.userId = NoUser

\* !isAdmin && (!player.userId || player.userId.toString() !== req.userId)
notAuthorized(round, player, u) ==
  ~isAdmin(round, u) /\ (player.userId = NoUser \/ player.userId # u)

(* PUT /:id/score, up to `await round.save()` *)
PutScore(u, id, pidx, hidx, score) ==
  /\ CanStart
  /\ IF ~(id \in RoundIds /\ creatorOrParticipant(rounds[id], u))
     THEN Reject("score", u, id, pidx, hidx, 404, ErrNotFound)
     ELSE
       LET round == rounds[id]
           slot == pidx.n + 1
       IN
       IF ~HasIndex(round.players, pidx)
       THEN Reject("score", u, id, pidx, hidx, 400, ErrInvalidPlayer)
       ELSE IF notAuthorized(round, round.players[slot], u)
       THEN Reject("score", u, id, pidx, hidx, 403, ErrUnauthorized)
       ELSE IF JsLt(hidx, 0) \/ JsGe(hidx, round.holes)
       THEN Reject("score", u, id, pidx, hidx, 400, ErrInvalidHole)
       ELSE
         LET old == round.players[slot].scores
             padded == padScores(old, hidx)
             val == parseScore(score)
             \* scores[holeIndex] = val is an array element only for an
             \* integer index; otherwise it is a property of the local array
             \* object that the save does not send
             new == IF hidx.t = "int"
                    THEN [padded EXCEPT ![hidx.n + 1] = val] ELSE padded
             delta == IF Len(padded) # Len(old) THEN ScoresDelta(slot, new)
                      ELSE IF hidx.t = "int"
                      THEN CellDelta(slot, hidx.n + 1, val)
                      ELSE NoDelta
         IN Await(Request("score", u, id, pidx, hidx, val, round, <<>>, delta))

-----------------------------------------------------------------------------
(* Share code allocation: POST / and POST /:id/share *)

\* a handler in its loop `while (!isUnique)`, before `new Round` or
\* `round.shareCode = code`
AllocRequest(op, u, id, round, body) ==
  [Request(op, u, id, Undef, Undef, 0, round, <<>>, NoDelta)
     EXCEPT !.pc = "allocating", !.body = body]

\* the players of a request body: names and no scores
NewPlayers(n) == [i \in 1 .. n |-> Player(PlayerName(i), <<>>)]

\* the POST / requests in flight
Creates ==
  [q \in {r \in BagToSet(inflight) : r.op = "create"} |-> inflight[q]]

\* the _id of `new Round(...)`: an id no round and no request has
NewId ==
  CHOOSE id \in AllIds :
    id \notin RoundIds \cup {r.id : r \in BagToSet(inflight)}

\* new Round({ courseName, date, holes, players, createdBy, shareCode }): a
\* missing array is the empty array
RoundOfBody(body, u, code) ==
  [ players |-> NewPlayers(IF body.players.t = "array" THEN body.players.n
                           ELSE 0),
    holes |-> IF body.holes.t = "array" THEN body.holes.n ELSE 0,
    createdBy |-> u,
    shareCode |-> code,
    v |-> 0 ]

(* POST /, up to the first `await Round.findOne({ shareCode })` *)
PostRound(u, body) ==
  /\ CanStart
  /\ Cardinality(RoundIds) + BagCardinality(Creates) < MaxRounds
  /\ Await(AllocRequest("create", u, NoSuchId, [v |-> 0], body))

(* POST /:id/share, up to the response or the first                        *)
(* `await Round.findOne({ shareCode: code })`                              *)
PostShare(u, id) ==
  /\ CanStart
  /\ IF ~(id \in RoundIds /\ createdByFilter(rounds[id], u))
     THEN Reject("share", u, id, Undef, Undef, 404, ErrNotFoundOrAuth)
     ELSE IF rounds[id].shareCode # NoCode
     THEN /\ resp' = [Response("share", u, id, Undef, Undef, 200, "", 0)
                        EXCEPT !.code = rounds[id].shareCode]
          /\ emitted' = <<>>
          /\ UNCHANGED <<rounds, inflight>>
     ELSE Await(AllocRequest("share", u, id, rounds[id], NoBody))

\* the handler after the loop, at `await round.save()`
Allocated(q, code) ==
  IF q.op = "create"
  THEN [q EXCEPT !.pc = "saving", !.code = code, !.id = NewId,
                 !.delta = InsertDelta(RoundOfBody(q.body, q.user, code))]
  ELSE [q EXCEPT !.pc = "saving", !.code = code, !.delta = CodeDelta(code)]

\* one turn of the loop: code = generateCode(); existing = await
\* Round.findOne({ shareCode: code }); if (!existing) isUnique = true
\* with the draws of Math.random() taken from `draws`
AllocateWith(q, draws) ==
  /\ Quiet
  /\ q.pc = "allocating"
  /\ \E rnd \in draws :
       LET code == generateCode(rnd) IN
       IF \E id \in RoundIds : rounds[id].shareCode = code
       THEN /\ q.tries < MaxTries
            /\ inflight' = Replace(q, [q EXCEPT !.tries = @ + 1])
       ELSE inflight' = Replace(q, Allocated(q, code))
  /\ resp' = NoResp
  /\ emitted' = <<>>
  /\ UNCHANGED rounds

Allocate(q) == AllocateWith(q, CodeDraws)

\* if (holes) round.holes = holes; if (players) round.players = players
editDelta(body) ==
  IF body.holes.t = "array" \/ body.players.t = "array"
  THEN EditDelta(body.holes, body.players)
  ELSE NoDelta

(* PUT /:id, up to `await round.save()` *)
PutRound(u, id, body) ==
  /\ CanStart
  /\ IF ~(id \in RoundIds /\ createdByFilter(rounds[id], u))
     THEN Reject("edit", u, id, Undef, Undef, 404, ErrNotFound)
     ELSE Await(Request("edit", u, id, Undef, Undef, 0, rounds[id], <<>>,
                        editDelta(body)))

-----------------------------------------------------------------------------
(* round.save(): the store executes the update *)
ApplyDelta(round, d) ==
  CASE d.kind = "userId" -> [round EXCEPT !.players[d.slot].userId = d.userId]
    [] d.kind = "cell" -> [round EXCEPT !.players[d.slot].scores[d.hole] = d.val]
    [] d.kind = "scores" ->
         [round EXCEPT !.players[d.slot].scores = d.scores, !.v = @ + 1]
    [] d.kind = "code" -> [round EXCEPT !.shareCode = d.code]
    [] d.kind = "edit" ->
         [round EXCEPT
            !.holes = IF d.holes.t = "array" THEN d.holes.n ELSE @,
            !.players = IF d.players.t = "array" THEN NewPlayers(d.players.n)
                        ELSE @,
            !.v = @ + 1]
    [] OTHER -> round

\* the version filter of the update matches the stored document; an insert
\* and a $set of shareCode carry no version
VersionMatches(q) ==
  IF q.delta.kind \in {"none", "insert", "code"} THEN TRUE
  ELSE rounds[q.id].v = q.v

\* every number of holes passes
holesValidAny(n) == TRUE

\* validator of holes: v.length === 9 || v.length === 18
holesValid(n) == n = Holes9 \/ n = Holes18

\* validator of players: v.length >= 1 && v.length <= 4
playersValid(n) == n >= 1 /\ n <= 4

\* the message of the ValidationError of the save, "" if the modified paths
\* are valid
validationError(d) ==
  LET holesOk == CASE d.kind = "insert" -> holesValid(d.doc.holes)
                   [] d.kind = "edit" /\ d.holes.t = "array" -> holesValid(d.holes.n)
                   [] OTHER -> TRUE
      playersOk == CASE d.kind = "insert" -> playersValid(Len(d.doc.players))
                     [] d.kind = "edit" /\ d.players.t = "array" ->
                          playersValid(d.players.n)
                     [] OTHER -> TRUE
  IN IF holesOk /\ playersOk THEN ""
     ELSE IF holesOk THEN ErrPlayers
     ELSE IF playersOk THEN ErrHoles
     ELSE ErrHolesPlayers

\* a collection without the index
noIndex(q) == FALSE

\* shareCode: { unique: true, sparse: true }: the write would give a second
\* document the code of a stored one
duplicateKey(q) ==
  /\ q.delta.kind \in {"insert", "code"}
  /\ \E id \in RoundIds \ {q.id} : rounds[id].shareCode = q.code

Save(q) ==
  /\ Quiet
  /\ q.pc = "saving"
  /\ validationError(q.delta) = ""
  /\ VersionMatches(q)
  /\ ~duplicateKey(q)
  /\ rounds' = IF q.delta.kind = "insert"
               THEN rounds @@ (q.id :> q.delta.doc)
               ELSE [rounds EXCEPT ![q.id] = ApplyDelta(@, q.delta)]
  /\ inflight' = Replace(q, [q EXCEPT !.pc = "saved"])
  /\ resp' = NoResp
  /\ emitted' = <<>>

\* the save throws before or in the store
SaveFails(q, error) ==
  /\ Quiet
  /\ q.pc = "saving"
  /\ inflight' = Replace(q, [q EXCEPT !.pc = "failed", !.error = error])
  /\ resp' = NoResp
  /\ emitted' = <<>>
  /\ UNCHANGED rounds

\* the validation before the write fails
SaveInvalid(q) ==
  /\ validationError(q.delta) # ""
  /\ SaveFails(q, validationError(q.delta))

\* no stored document has the version the update asks for
SaveVersionError(q) ==
  /\ validationError(q.delta) = ""
  /\ ~VersionMatches(q)
  /\ SaveFails(q, ErrVersion)

\* the store cannot be reached
SaveUnavailable(q) == SaveFails(q, ErrUnavailable)

\* the unique index on shareCode rejects the write
SaveDuplicateKey(q) ==
  /\ validationError(q.delta) = ""
  /\ VersionMatches(q)
  /\ duplicateKey(q)
  /\ SaveFails(q, ErrDuplicateKey)

-----------------------------------------------------------------------------
(* The continuation after `await round.save()`: emit, then answer *)
EventOf(q) ==
  CASE q.op = "join" ->
         Event("player-joined", q.id, q.playerIndex, Undef, 0, q.user,
               q.name)
    [] q.op = "remove" ->
         Event("player-removed", q.id, q.playerIndex, Undef, 0, NoUser, <<>>)
    [] OTHER ->
         Event("score-update", q.id, q.playerIndex, q.holeIndex, q.val,
               NoUser, <<>>)

\* the status of the success response: 201 for POST /
okStatus(op) == IF op = "create" THEN 201 ELSE 200

\* the status of the catch: 400 in POST / and PUT /:id, 500 in the others
catchStatus(op) == IF op \in {"create", "edit"} THEN 400 ELSE 500

\* the handlers that emit: POST /join, DELETE /:id/players/:playerIndex and
\* PUT /:id/score
Emits(op) == op \in {"join", "remove", "score"}

Respond(q) ==
  /\ Quiet
  /\ q.pc = "saved"
  /\ emitted' = IF Emits(q.op) THEN <<EventOf(q)>> ELSE <<>>
  /\ resp' = [Response(q.op, q.user, q.id, q.playerIndex, q.holeIndex,
                       okStatus(q.op), "", q.val) EXCEPT !.code = q.code]
  /\ inflight' = Remove(q)
  /\ UNCHANGED rounds

\* a catch that emits the event of the request before it answers
RespondErrorEmits(q) ==
  /\ Quiet
  /\ q.pc = "failed"
  /\ emitted' = <<EventOf(q)>>
  /\ resp' = Response(q.op, q.user, q.id, q.playerIndex, q.holeIndex,
                      catchStatus(q.op), q.error, 0)
  /\ inflight' = Remove(q)
  /\ UNCHANGED rounds

\* catch (error): res.status(500).json({ error: error.message }), or
\* res.status(400) in POST / and PUT /:id
RespondError(q) ==
  /\ Quiet
  /\ q.pc = "failed"
  /\ emitted' = <<>>
  /\ resp' = Response(q.op, q.user, q.id, q.playerIndex, q.holeIndex,
                      catchStatus(q.op), q.error, 0)
  /\ inflight' = Remove(q)
  /\ UNCHANGED rounds

\* res.json(...) and io.to(room).emit(...) return: the response and the
\* events are on their way
Flush ==
  /\ ~Quiet
  /\ resp' = NoResp
  /\ emitted' = <<>>
  /\ UNCHANGED <<rounds, inflight>>

-----------------------------------------------------------------------------
(* The socket server and the socket handlers of the client *)

\* a packet on its way to a client: the event, and the number of the emit
\* that sent it (history)
Packet(ev, n) == [ev |-> ev, n |-> n]

\* every connection receives the event
inRoomAll(c, room) == TRUE

\* io.to(`round:${roundId}`): the sockets that have joined the room
inRoom(c, room) == room \in rooms[c]

\* io.to(room).emit(type, data) of the step, as the n-th emit: one packet to
\* every socket of the room, behind the packets already sent to it
Broadcast(n) ==
  wire' = [c \in Conns |->
             IF emitted' # <<>> /\ inRoom(c, emitted'[1].room)
             THEN Append(wire[c], Packet(emitted'[1], n))
             ELSE wire[c]]

\* a verification that accepts every string
verifyAny(token) == TRUE

\* jwt.verify(token, JWT_SECRET) returns the payload (it does not throw)
verify(token) == token.kind = "signed"

\* io.use((socket, next) => ...): the middleware of the handshake.  next(err)
\* refuses the connection; next() lets io.on('connection') register the
\* handlers of the socket
Connect(c, token) ==
  /\ sockets[c].state = "closed"
  /\ sockets' = [sockets EXCEPT ![c] =
                   IF token.kind = "none" THEN RefusedSocket(ErrAuthRequired)
                   ELSE IF ~verify(token) THEN RefusedSocket(ErrInvalidToken)
                   ELSE OpenSocket(token.userId)]
  /\ UNCHANGED <<rounds, inflight, resp, emitted, rooms, wire>>

\* socket.disconnect() of the client: the server drops the socket from its
\* rooms, and the packets on their way are lost
Disconnect(c) ==
  /\ sockets[c].state = "open"
  /\ sockets' = [sockets EXCEPT ![c] = NoSocket]
  /\ rooms' = [rooms EXCEPT ![c] = {}]
  /\ wire' = [wire EXCEPT ![c] = <<>>]
  /\ UNCHANGED <<rounds, inflight, resp, emitted>>

\* socket.on('join-round', roomId): socket.join; the handler exists on the
\* sockets that reached io.on('connection')
JoinRound(c, id) ==
  /\ sockets[c].state = "open"
  /\ rooms' = [rooms EXCEPT ![c] = @ \cup {id}]
  /\ UNCHANGED <<rounds, inflight, resp, emitted, wire, sockets>>

\* socket.on('leave-round', roomId): socket.leave
LeaveRound(c, id) ==
  /\ sockets[c].state = "open"
  /\ id \in rooms[c]
  /\ rooms' = [rooms EXCEPT ![c] = @ \ {id}]
  /\ UNCHANGED <<rounds, inflight, resp, emitted, wire, sockets>>

\* openEditView(round): setPlayers(round.players), with the round as the
\* store holds it
OpenEditView(c, id) ==
  clientPlayers' = [clientPlayers EXCEPT ![c] =
                      [i \in DOMAIN rounds[id].players |->
                         rounds[id].players[i].scores]]

\* an array element never assigned
EmptyItem == -1000

\* arr[k] = val on a JavaScript array, k a 0-based index
setAt(arr, k, val) ==
  [i \in 1 .. (IF k + 1 > Len(arr) THEN k + 1 ELSE Len(arr)) |->
     IF i = k + 1 THEN val ELSE IF i <= Len(arr) THEN arr[i] ELSE EmptyItem]

\* a handler that keeps a value the client has entered
onEventKeepLocal(players, ev) ==
  IF /\ ev.type = "score-update"
     /\ HasIndex(players, ev.playerIndex)
     /\ ev.holeIndex.t = "int" /\ ev.holeIndex.n >= 0
     /\ \/ ev.holeIndex.n >= Len(players[ev.playerIndex.n + 1])
        \/ players[ev.playerIndex.n + 1][ev.holeIndex.n + 1] = 0
  THEN [players EXCEPT ![ev.playerIndex.n + 1] =
          setAt(@, ev.holeIndex.n, ev.score)]
  ELSE players

\* socket.on('score-update', data): if (updated[data.playerIndex])
\*   updated[data.playerIndex].scores[data.holeIndex] = data.score;
\* the other events change no score
onEvent(players, ev) ==
  IF /\ ev.type = "score-update"
     /\ HasIndex(players, ev.playerIndex)
     /\ ev.holeIndex.t = "int" /\ ev.holeIndex.n >= 0
  THEN [players EXCEPT ![ev.playerIndex.n + 1] =
          setAt(@, ev.holeIndex.n, ev.score)]
  ELSE players

\* handleScoreUpdate(playerIndex, holeIndex, score) of the client of
\* connection c, with the round open: the local players are updated at once,
\* then the PUT /:id/score is sent with the token of the client
HandleScoreUpdate(c, id, pidx, hidx, score) ==
  /\ sockets[c].state = "open"
  /\ id \in rooms[c]
  /\ HasIndex(clientPlayers[c], Whole(pidx))
  /\ clientPlayers' = [clientPlayers EXCEPT ![c][pidx + 1] =
                         setAt(@, hidx, parseScore(score))]
  /\ PutScore(sockets[c].userId, id, Whole(pidx), Whole(hidx),
              Whole(parseScore(score)))
  /\ UNCHANGED <<rooms, wire, published, lastSeen, sockets>>

\* the client receives the packet at the tail of the connection
DeliverLast(c) ==
  /\ wire[c] # <<>>
  /\ wire' = [wire EXCEPT ![c] = SubSeq(@, 1, Len(@) - 1)]
  /\ clientPlayers' = [clientPlayers EXCEPT ![c] =
                         onEvent(@, wire[c][Len(wire[c])].ev)]
  /\ lastSeen' = [lastSeen EXCEPT ![c] = wire[c][Len(wire[c])].n]
  /\ UNCHANGED <<rounds, inflight, resp, emitted, rooms, published, sockets>>

\* the client receives the next packet of its connection and runs the handler
Deliver(c) ==
  /\ wire[c] # <<>>
  /\ wire' = [wire EXCEPT ![c] = Tail(@)]
  /\ clientPlayers' = [clientPlayers EXCEPT ![c] = onEvent(@, Head(wire[c]).ev)]
  /\ lastSeen' = [lastSeen EXCEPT ![c] = Head(wire[c]).n]
  /\ UNCHANGED <<rounds, inflight, resp, emitted, rooms, published, sockets>>

-----------------------------------------------------------------------------
(* The claim protocol: claims and vacates of one round, concurrently *)
Init == InitStore

\* no socket is connected
NoSockets == UNCHANGED <<rooms, clientPlayers, published, lastSeen, sockets>>

NextClaim ==
  \/ \E u \in Users, code \in CodeInputs, pidx \in PlayerIndexInputs :
       PostJoin(u, code, pidx) /\ UNCHANGED <<lastVacated, sockVars>>
  \/ \E u \in Users, code \in LookupCodeInputs :
       Lookup(u, code) /\ UNCHANGED <<lastVacated, sockVars>>
  \/ \E u \in Users, id \in IdInputs, param \in PlayerParamInputs :
       DeletePlayer(u, id, param) /\ UNCHANGED <<lastVacated, sockVars>>
  \/ \E q \in BagToSet(inflight) :
       Save(q) /\ UNCHANGED <<lastVacated, sockVars>>
  \/ \E q \in BagToSet(inflight) :
       Respond(q) /\ Broadcast(0) /\ NoSockets /\ UNCHANGED lastVacated
  \/ Flush /\ UNCHANGED <<lastVacated, sockVars>>

Spec == Init /\ [][NextClaim]_vars

-----------------------------------------------------------------------------
(* The authorization policy of the single-score update: requests that do   *)
(* not overlap (each is answered before the next one is read), so that the *)
(* outcome of a request is the outcome of the policy on the stored round   *)
PolicyPlayerInputs == {Whole(k) : k \in 0 .. NumPlayers}
PolicyHoleInputs == {Whole(k) : k \in 0 .. MaxHole} \cup {Whole(Holes18)}
PolicyScoreInputs == {Whole(1)}

Idle == inflight = EmptyBag

\* the history of vacates kept next to a step of the store
Vacates(q) ==
  lastVacated' =
    IF q.op = "remove" /\ q.delta.kind = "userId"
    THEN [lastVacated EXCEPT ![q.id][q.delta.slot] =
            rounds[q.id].players[q.delta.slot].userId]
    ELSE lastVacated

NextScore ==
  \/ \E u \in Users, pidx \in {Whole(k) : k \in 0 .. NumPlayers - 1} :
       Idle /\ PostJoin(u, [def |-> TRUE, s |-> Code1], pidx)
            /\ UNCHANGED <<lastVacated, sockVars>>
  \/ \E u \in Users, id \in RoundIds, k \in 0 .. NumPlayers - 1 :
       Idle /\ DeletePlayer(u, id, Whole(k))
            /\ UNCHANGED <<lastVacated, sockVars>>
  \/ \E u \in Users, id \in RoundIds, pidx \in PolicyPlayerInputs,
        hidx \in PolicyHoleInputs, score \in PolicyScoreInputs :
       Idle /\ PutScore(u, id, pidx, hidx, score)
            /\ UNCHANGED <<lastVacated, sockVars>>
  \/ \E q \in BagToSet(inflight) : Save(q) /\ Vacates(q) /\ UNCHANGED sockVars
  \/ \E q \in BagToSet(inflight) :
       Respond(q) /\ Broadcast(0) /\ NoSockets /\ UNCHANGED lastVacated
  \/ Flush /\ UNCHANGED <<lastVacated, sockVars>>

SpecScore == Init /\ [][NextScore]_vars

-----------------------------------------------------------------------------
(* The single-score update with every kind of index and score a request    *)
(* body can carry, by the creator and by one participant; requests that do *)
(* not overlap                                                              *)
ValueUsers == {Owner, Owner + 1}

\* a round of nine holes; hole index 9 is the first one past the end
InitValue == InitStore /\ \A id \in RoundIds : rounds[id].holes = Holes9
ValueHoleInputs ==
  {Whole(k) : k \in -1 .. MaxHole} \cup {Whole(Holes9), Frac(0), Undef}

NextValue ==
  \/ \E u \in ValueUsers \ {Owner}, k \in 0 .. NumPlayers - 1 :
       Idle /\ PostJoin(u, [def |-> TRUE, s |-> Code1], Whole(k))
            /\ UNCHANGED <<lastVacated, sockVars>>
  \/ \E id \in RoundIds, k \in 0 .. NumPlayers - 1 :
       Idle /\ DeletePlayer(Owner, id, Whole(k))
            /\ UNCHANGED <<lastVacated, sockVars>>
  \/ \E u \in ValueUsers, id \in RoundIds, pidx \in PlayerIndexInputs,
        hidx \in ValueHoleInputs, score \in ScoreInputs :
       Idle /\ PutScore(u, id, pidx, hidx, score)
            /\ UNCHANGED <<lastVacated, sockVars>>
  \/ \E q \in BagToSet(inflight) :
       Save(q) /\ UNCHANGED <<lastVacated, sockVars>>
  \/ \E q \in BagToSet(inflight) :
       Respond(q) /\ Broadcast(0) /\ NoSockets /\ UNCHANGED lastVacated
  \/ Flush /\ UNCHANGED <<lastVacated, sockVars>>

SpecValue == InitValue /\ [][NextValue]_vars

-----------------------------------------------------------------------------
(* The room of a round: clients open and close the round; the creator      *)
(* updates the first score of the first player and vacates the last slot,   *)
(* the others claim the last slot, concurrently; the events travel to the   *)
(* clients                                                                  *)
RoomScoreInputs == {Whole(1), Whole(2)}

\* resetForm(): setPlayers([{ name: '', scores: Array(18).fill(0) }])
CloseEditView(c) == clientPlayers' = [clientPlayers EXCEPT ![c] = NoPlayers]

NextRoom ==
  \/ \E c \in Conns :
       /\ Connect(c, SignedToken(c))
       /\ UNCHANGED <<lastVacated, clientPlayers, published, lastSeen>>
  \/ \E c \in Conns, id \in RoundIds :
       /\ id \notin rooms[c]
       /\ OpenEditView(c, id)
       /\ JoinRound(c, id)
       /\ UNCHANGED <<lastVacated, published, lastSeen>>
  \/ \E c \in Conns :
       /\ NoSuchId \notin rooms[c]
       /\ JoinRound(c, NoSuchId)
       /\ UNCHANGED <<lastVacated, clientPlayers, published, lastSeen>>
  \/ \E c \in Conns, id \in RoundIds :
       /\ CloseEditView(c)
       /\ LeaveRound(c, id)
       /\ UNCHANGED <<lastVacated, published, lastSeen>>
  \/ \E id \in RoundIds, score \in RoomScoreInputs :
       /\ published + BagCardinality(inflight) < MaxEvents
       /\ PutScore(Owner, id, Whole(0), Whole(0), score)
       /\ UNCHANGED <<lastVacated, sockVars>>
  \/ \E u \in Users \ {Owner} :
       /\ published + BagCardinality(inflight) < MaxEvents
       /\ PostJoin(u, [def |-> TRUE, s |-> Code1], Whole(NumPlayers - 1))
       /\ UNCHANGED <<lastVacated, sockVars>>
  \/ \E id \in RoundIds :
       /\ published + BagCardinality(inflight) < MaxEvents
       /\ DeletePlayer(Owner, id, Whole(NumPlayers - 1))
       /\ UNCHANGED <<lastVacated, sockVars>>
  \/ \E q \in BagToSet(inflight) :
       Save(q) /\ UNCHANGED <<lastVacated, sockVars>>
  \/ \E q \in BagToSet(inflight) :
       SaveVersionError(q) /\ UNCHANGED <<lastVacated, sockVars>>
  \/ \E q \in BagToSet(inflight) :
       SaveUnavailable(q) /\ UNCHANGED <<lastVacated, sockVars>>
  \/ \E q \in BagToSet(inflight) :
       /\ Respond(q)
       /\ Broadcast(published + 1)
       /\ published' = published + 1
       /\ UNCHANGED <<lastVacated, rooms, clientPlayers, lastSeen, sockets>>
  \/ \E q \in BagToSet(inflight) :
       RespondError(q) /\ UNCHANGED <<lastVacated, sockVars>>
  \/ \E c \in Conns : Deliver(c) /\ UNCHANGED lastVacated
  \/ Flush /\ UNCHANGED <<lastVacated, sockVars>>

SpecRoom == InitValue /\ [][NextRoom]_vars

-----------------------------------------------------------------------------
(* The cells of one round: the creator and one participant update the      *)
(* first two holes of the first player, the participant claims a slot and   *)
(* the creator vacates the first one, concurrently                          *)
CellScoreInputs == {Whole(1), Whole(2)}

NextCells ==
  \/ \E k \in 0 .. NumPlayers - 1 :
       PostJoin(Owner + 1, [def |-> TRUE, s |-> Code1], Whole(k))
         /\ UNCHANGED <<lastVacated, sockVars>>
  \/ \E id \in RoundIds :
       DeletePlayer(Owner, id, Whole(0))
         /\ UNCHANGED <<lastVacated, sockVars>>
  \/ \E u \in ValueUsers, id \in RoundIds, h \in 0 .. MaxHole,
        score \in CellScoreInputs :
       PutScore(u, id, Whole(0), Whole(h), score)
         /\ UNCHANGED <<lastVacated, sockVars>>
  \/ \E q \in BagToSet(inflight) :
       Save(q) /\ UNCHANGED <<lastVacated, sockVars>>
  \/ \E q \in BagToSet(inflight) :
       SaveVersionError(q) /\ UNCHANGED <<lastVacated, sockVars>>
  \/ \E q \in BagToSet(inflight) :
       Respond(q) /\ Broadcast(0) /\ NoSockets /\ UNCHANGED lastVacated
  \/ \E q \in BagToSet(inflight) :
       RespondError(q) /\ UNCHANGED <<lastVacated, sockVars>>
  \/ Flush /\ UNCHANGED <<lastVacated, sockVars>>

SpecCells == InitValue /\ [][NextCells]_vars

-----------------------------------------------------------------------------
(* Two rounds, each with its share code and its creator: claims with both  *)
(* codes, vacates and score updates; requests that do not overlap          *)
SecondId == "r2"

InitRecords ==
  /\ \E entered \in BOOLEAN :
       rounds = (FirstId :> NewRound(Holes9, NumPlayers, Owner, Code1, entered))
                @@ (SecondId :> NewRound(Holes9, NumPlayers, Owner + 1, Code2,
                                         entered))
  /\ InitRest

NextRecords ==
  \/ \E u \in Users, code \in {Code1, Code2}, k \in 0 .. NumPlayers - 1 :
       Idle /\ PostJoin(u, [def |-> TRUE, s |-> code], Whole(k))
            /\ UNCHANGED <<lastVacated, sockVars>>
  \/ \E u \in ValueUsers, id \in RoundIds, k \in 0 .. NumPlayers - 1 :
       Idle /\ DeletePlayer(u, id, Whole(k))
            /\ UNCHANGED <<lastVacated, sockVars>>
  \/ \E u \in Users, id \in RoundIds, h \in 0 .. MaxHole :
       Idle /\ PutScore(u, id, Whole(0), Whole(h), Whole(1))
            /\ UNCHANGED <<lastVacated, sockVars>>
  \/ \E q \in BagToSet(inflight) :
       Save(q) /\ UNCHANGED <<lastVacated, sockVars>>
  \/ \E q \in BagToSet(inflight) :
       Respond(q) /\ Broadcast(0) /\ NoSockets /\ UNCHANGED lastVacated
  \/ Flush /\ UNCHANGED <<lastVacated, sockVars>>

SpecRecords == InitRecords /\ [][NextRecords]_vars

-----------------------------------------------------------------------------
(* Share codes: a round created before the codes existed, creates and      *)
(* shares by the creator and by another identity, and lookups, concurrently *)
CodeUsers == {Owner, Owner + 1}

\* a body with nine holes and one player
ValidBody == Body(Arr(Holes9), Arr(1))

\* the round of the older POST / (src/unnamed/part_003): no shareCode
InitCode ==
  /\ rounds = [id \in {FirstId} |-> NewRound(Holes9, 1, Owner, NoCode, FALSE)]
  /\ InitRest

NextCode ==
  \/ \E u \in CodeUsers :
       PostRound(u, ValidBody) /\ UNCHANGED <<lastVacated, sockVars>>
  \/ \E u \in CodeUsers, id \in IdInputs :
       PostShare(u, id) /\ UNCHANGED <<lastVacated, sockVars>>
  \/ \E u \in CodeUsers, code \in LookupCodeInputs :
       Lookup(u, code) /\ UNCHANGED <<lastVacated, sockVars>>
  \/ \E q \in BagToSet(inflight) :
       Allocate(q) /\ UNCHANGED <<lastVacated, sockVars>>
  \/ \E q \in BagToSet(inflight) :
       Save(q) /\ UNCHANGED <<lastVacated, sockVars>>
  \/ \E q \in BagToSet(inflight) :
       SaveDuplicateKey(q) /\ UNCHANGED <<lastVacated, sockVars>>
  \/ \E q \in BagToSet(inflight) :
       Respond(q) /\ Broadcast(0) /\ NoSockets /\ UNCHANGED lastVacated
  \/ \E q \in BagToSet(inflight) :
       RespondError(q) /\ UNCHANGED <<lastVacated, sockVars>>
  \/ Flush /\ UNCHANGED <<lastVacated, sockVars>>

SpecCode == InitCode /\ [][NextCode]_vars

-----------------------------------------------------------------------------
(* The client: each client connects, opens the round and enters scores in  *)
(* the first cell, which it shows at once and sends; the store can fail;    *)
(* the events travel back to the clients in the room                        *)
NextClient ==
  \/ \E c \in Conns :
       /\ Connect(c, SignedToken(c))
       /\ UNCHANGED <<lastVacated, clientPlayers, published, lastSeen>>
  \/ \E c \in Conns, id \in RoundIds :
       /\ id \notin rooms[c]
       /\ OpenEditView(c, id)
       /\ JoinRound(c, id)
       /\ UNCHANGED <<lastVacated, published, lastSeen>>
  \/ \E c \in Conns, id \in RoundIds, score \in RoomScoreInputs :
       /\ published + BagCardinality(inflight) < MaxEvents
       /\ HandleScoreUpdate(c, id, 0, 0, score)
       /\ UNCHANGED lastVacated
  \/ \E q \in BagToSet(inflight) :
       Save(q) /\ UNCHANGED <<lastVacated, sockVars>>
  \/ \E q \in BagToSet(inflight) :
       SaveUnavailable(q) /\ UNCHANGED <<lastVacated, sockVars>>
  \/ \E q \in BagToSet(inflight) :
       /\ Respond(q)
       /\ Broadcast(published + 1)
       /\ published' = published + 1
       /\ UNCHANGED <<lastVacated, rooms, clientPlayers, lastSeen, sockets>>
  \/ \E q \in BagToSet(inflight) :
       RespondError(q) /\ UNCHANGED <<lastVacated, sockVars>>
  \/ \E c \in Conns : Deliver(c) /\ UNCHANGED lastVacated
  \/ Flush /\ UNCHANGED <<lastVacated, sockVars>>

SpecClient == InitValue /\ [][NextClient]_vars

-----------------------------------------------------------------------------
(* The code generator: the creator shares the round that has no code, with *)
(* draws of Math.random() at the ends of [0, 1) and on both sides of the    *)
(* letters the alphabet leaves out; the round is then looked up by its code *)
RandomInputs == {0, 15, 16, 47, RandomDen - 1}
AllDraws == [1 .. CodeLength -> RandomInputs]

NextGenerate ==
  \/ Idle /\ PostShare(Owner, FirstId) /\ UNCHANGED <<lastVacated, sockVars>>
  \/ \E q \in BagToSet(inflight) :
       AllocateWith(q, AllDraws) /\ UNCHANGED <<lastVacated, sockVars>>
  \/ \E q \in BagToSet(inflight) :
       Save(q) /\ UNCHANGED <<lastVacated, sockVars>>
  \/ \E q \in BagToSet(inflight) :
       Respond(q) /\ Broadcast(0) /\ NoSockets /\ UNCHANGED lastVacated
  \/ \E u \in CodeUsers, id \in RoundIds :
       /\ Idle
       /\ rounds[id].shareCode # NoCode
       /\ Lookup(u, [def |-> TRUE, s |-> rounds[id].shareCode])
       /\ UNCHANGED <<lastVacated, sockVars>>
  \/ Flush /\ UNCHANGED <<lastVacated, sockVars>>

SpecGenerate == InitCode /\ [][NextGenerate]_vars

-----------------------------------------------------------------------------
(* Whole-round requests: creates by the creator and edits by everybody,    *)
(* with every kind of holes and players in the body, between claims,        *)
(* vacates and score updates of the first slot by everybody, on the stored  *)
(* rounds and on a round that does not exist; requests that do not overlap  *)
HolesInputs == {Undef, Arr(0), Arr(Holes9), Arr(Holes9 + 1), Arr(Holes18)}
PlayersInputs == {Undef, Arr(0), Arr(1), Arr(4), Arr(5)}

NextEdit ==
  \/ \E holes \in HolesInputs, players \in PlayersInputs :
       Idle /\ PostRound(Owner, Body(holes, players))
            /\ UNCHANGED <<lastVacated, sockVars>>
  \/ \E u \in Users, id \in IdInputs, holes \in HolesInputs,
        players \in PlayersInputs :
       Idle /\ (\A r \in RoundIds : rounds[r].v < MaxEdits)
            /\ PutRound(u, id, Body(holes, players))
            /\ UNCHANGED <<lastVacated, sockVars>>
  \/ \E u \in Users \ {Owner} :
       Idle /\ PostJoin(u, [def |-> TRUE, s |-> Code1], Whole(0))
            /\ UNCHANGED <<lastVacated, sockVars>>
  \/ \E u \in Users, id \in IdInputs :
       Idle /\ DeletePlayer(u, id, Whole(0))
            /\ UNCHANGED <<lastVacated, sockVars>>
  \/ \E u \in Users, id \in IdInputs :
       Idle /\ PutScore(u, id, Whole(0), Whole(0), Whole(1))
            /\ UNCHANGED <<lastVacated, sockVars>>
  \/ \E q \in BagToSet(inflight) :
       Allocate(q) /\ UNCHANGED <<lastVacated, sockVars>>
  \/ \E q \in BagToSet(inflight) :
       Save(q) /\ UNCHANGED <<lastVacated, sockVars>>
  \/ \E q \in BagToSet(inflight) :
       SaveInvalid(q) /\ UNCHANGED <<lastVacated, sockVars>>
  \/ \E q \in BagToSet(inflight) :
       Respond(q) /\ Broadcast(0) /\ NoSockets /\ UNCHANGED lastVacated
  \/ \E q \in BagToSet(inflight) :
       RespondError(q) /\ UNCHANGED <<lastVacated, sockVars>>
  \/ Flush /\ UNCHANGED <<lastVacated, sockVars>>

SpecEdit == InitValue /\ [][NextEdit]_vars

-----------------------------------------------------------------------------
(* The handshake of the socket server: clients connect with every kind of  *)
(* token, join and leave rooms and disconnect; no request is made           *)
NextSocket ==
  \/ \E c \in Conns, token \in TokenInputs :
       /\ Connect(c, token)
       /\ UNCHANGED <<lastVacated, clientPlayers, published, lastSeen>>
  \/ \E c \in Conns, id \in IdInputs :
       /\ JoinRound(c, id)
       /\ UNCHANGED <<lastVacated, clientPlayers, published, lastSeen>>
  \/ \E c \in Conns, id \in IdInputs :
       /\ LeaveRound(c, id)
       /\ UNCHANGED <<lastVacated, clientPlayers, published, lastSeen>>
  \/ \E c \in Conns :
       /\ Disconnect(c)
       /\ UNCHANGED <<lastVacated, clientPlayers, published, lastSeen>>

SpecSocket == InitValue /\ [][NextSocket]_vars

-----------------------------------------------------------------------------
(* Properties of the claim protocol (specification Spec) *)

\* the slots (1-based) of a round that hold identity u
Occupied(round, u) == {i \in DOMAIN round.players : round.players[i].userId = u}

\* the rounds a share code of a request body resolves to
RoundOfCode(code) ==
  IF code.def /\ code.s # <<>>
  THEN {id \in RoundIds : rounds[id].shareCode = toUpperCase(code.s)}
  ELSE {}

\* the step answered the request at once and changed nothing
Refused(status, error) ==
  /\ resp'.status = status
  /\ resp'.error = error
  /\ rounds' = rounds
  /\ inflight' = inflight
  /\ emitted' = <<>>

\* the step passed every check of the handler: the request waits for its save
Accepted ==
  /\ resp' = NoResp
  /\ BagCardinality(inflight') = BagCardinality(inflight) + 1
  /\ rounds' = rounds

\* C1: in every reachable state of the store, under any interleaving of the
\* reads and saves of concurrent claims and vacates, no identity is bound to
\* more than one slot of a round.
C1_OneSlotPerIdentity ==
  \A id \in RoundIds, u \in Users : Cardinality(Occupied(rounds[id], u)) <= 1

\* C2: of two claims by different identities on the same Open slot with no
\* vacate between them at most one succeeds: no save of a claim rebinds a slot
\* that holds another identity.  (A claim whose save is executed answers
\* success; a save that finds the slot bound to another identity comes second
\* to that identity's successful claim, with no vacate in between.)
C2_ClaimNeverRebinds ==
  [][\A id \in RoundIds, i \in 1 .. NumPlayers :
       (/\ i \in DOMAIN rounds[id].players
        /\ rounds[id].players[i].userId # NoUser
        /\ rounds'[id].players[i].userId # NoUser)
       => rounds'[id].players[i].userId = rounds[id].players[i].userId]_vars

\* C6: a claim on a slot that holds a different identity fails with
\* 'This slot is already claimed', changes nothing in the store and emits no
\* player-joined event.
C6_TakenSlotRefused ==
  [][\A u \in Users, code \in CodeInputs, pidx \in PlayerIndexInputs :
       (/\ \E id \in RoundOfCode(code) :
             /\ HasIndex(rounds[id].players, pidx)
             /\ rounds[id].players[pidx.n + 1].userId \notin {NoUser, u}
        /\ PostJoin(u, code, pidx))
       => Refused(400, ErrSlotTaken)]_vars

\* C6 witness: the claim of an identity was refused as taken, and the slot
\* holds another identity
C6_Witness ==
  /\ resp.op = "join"
  /\ resp.status = 400
  /\ resp.error = ErrSlotTaken
  /\ resp.id \in RoundIds
  /\ rounds[resp.id].players[resp.playerIndex.n + 1].userId
       \notin {NoUser, resp.user}

\* C7: a claim by an identity that holds a different slot of the round (on a
\* slot that no other identity holds) fails with 'You already have a slot in
\* this round' and changes nothing; no claim is committed for an identity
\* that still holds another slot of the round.
C7_DuplicateClaimRefused ==
  [][/\ \A u \in Users, code \in CodeInputs, pidx \in PlayerIndexInputs :
          (/\ \E id \in RoundOfCode(code) :
                /\ HasIndex(rounds[id].players, pidx)
                /\ rounds[id].players[pidx.n + 1].userId \in {NoUser, u}
                /\ Occupied(rounds[id], u) \ {pidx.n + 1} # {}
           /\ PostJoin(u, code, pidx))
          => Refused(400, ErrDuplicateClaim)
     /\ \A q \in BagToSet(inflight) :
          (Save(q) /\ q.op = "join" /\ q.delta.kind = "userId")
          => Occupied(rounds[q.id], q.user) \ {q.delta.slot} = {}]_vars

\* C8: a claim whose playerIndex is a number that is no index of the round's
\* players (negative, past the end, not an integer) fails with
\* 'Invalid player slot' and changes nothing.
C8_InvalidSlotRefused ==
  [][\A u \in Users, code \in CodeInputs, pidx \in PlayerIndexInputs :
       (/\ IsNum(pidx)
        /\ \E id \in RoundOfCode(code) : ~HasIndex(rounds[id].players, pidx)
        /\ PostJoin(u, code, pidx))
       => Refused(400, ErrInvalidSlot)]_vars

\* C9: a claim by an identity on the slot it already holds succeeds (it passes
\* the checks, its save writes nothing) and leaves the stored round as it was.
C9_ReclaimIdempotent ==
  [][/\ \A u \in Users, code \in CodeInputs, pidx \in PlayerIndexInputs :
          (/\ \E id \in RoundOfCode(code) :
                /\ HasIndex(rounds[id].players, pidx)
                /\ rounds[id].players[pidx.n + 1].userId = u
           /\ PostJoin(u, code, pidx))
          => (Accepted /\ \A q \in BagToSet(inflight' (-) inflight) :
                            q.delta = NoDelta)
     /\ \A q \in BagToSet(inflight) :
          (Save(q) /\ q.op = "join" /\ q.delta = NoDelta) => rounds' = rounds]_vars

\* C10: a vacate by the creator of the round on a valid player index is not
\* refused, and its save sets the userId of that player to null whatever the
\* slot holds then; the name and the scores of that player, every other
\* player, the holes, the creator and the share code stay as they are.  (A
\* vacate that read the slot Open writes nothing.)
C10_VacateFrame ==
  [][/\ \A u \in Users, id \in RoundIds, param \in PlayerParamInputs :
          (/\ rounds[id].createdBy = u
           /\ HasIndex(rounds[id].players, parseInt(param))
           /\ DeletePlayer(u, id, param))
          => /\ Accepted
             /\ \A q \in BagToSet(inflight' (-) inflight) :
                  /\ q.op = "remove"
                  /\ q.playerIndex = parseInt(param)
                  /\ (q.delta.kind = "none") <=>
                       (rounds[id].players[parseInt(param).n + 1].userId = NoUser)
     /\ \A q \in BagToSet(inflight) :
          (Save(q) /\ q.op = "remove")
          => rounds' =
               IF q.delta.kind = "none" THEN rounds
               ELSE [rounds EXCEPT
                       ![q.id].players[q.playerIndex.n + 1].userId = NoUser]
     /\ \A q \in BagToSet(inflight) :
          (Respond(q) /\ q.op = "remove")
          => (resp'.status = 200 /\ rounds' = rounds)]_vars

\* C10 witness: the save of a vacate that read the slot bound has been
\* executed: the slot is Open and its scores are still there
C10_Witness ==
  \E q \in BagToSet(inflight) :
    /\ q.op = "remove"
    /\ q.pc = "saved"
    /\ q.delta.kind = "userId"
    /\ rounds[q.id].players[q.playerIndex.n + 1].userId = NoUser
    /\ rounds[q.id].players[q.playerIndex.n + 1].scores # <<>>
    /\ \E j \in DOMAIN rounds[q.id].players :
         rounds[q.id].players[j].userId # NoUser

-----------------------------------------------------------------------------
(* Properties of the authorization policy (specification SpecScore) *)

\* hidx is an index of the holes of the round
HoleInRange(round, hidx) == hidx.t = "int" /\ hidx.n >= 0 /\ hidx.n < round.holes

\* C3: a score update by an identity that is not the creator and holds a slot
\* of the round, on another slot (Open or held by somebody else), fails with
\* 403 'Not authorized to update this score', changes nothing in the store
\* and emits nothing.
C3_OtherSlotRefused ==
  [][\A u \in Users, id \in RoundIds, pidx \in PolicyPlayerInputs,
        hidx \in PolicyHoleInputs, score \in PolicyScoreInputs :
       (/\ rounds[id].createdBy # u
        /\ Occupied(rounds[id], u) # {}
        /\ HasIndex(rounds[id].players, pidx)
        /\ rounds[id].players[pidx.n + 1].userId # u
        /\ PutScore(u, id, pidx, hidx, score))
       => Refused(403, ErrUnauthorized)]_vars

\* C3 witness: a participant was refused on the slot of another participant
C3_Witness ==
  /\ resp.op = "score"
  /\ resp.status = 403
  /\ resp.id \in RoundIds
  /\ rounds[resp.id].createdBy # resp.user
  /\ Occupied(rounds[resp.id], resp.user) # {}
  /\ rounds[resp.id].players[resp.playerIndex.n + 1].userId
       \notin {NoUser, resp.user}

C5_OwnerUpdatesAnySlot ==
  (/\ resp.op = "score"
   /\ resp.id \in RoundIds
   /\ resp.user = rounds[resp.id].createdBy
   /\ HasIndex(rounds[resp.id].players, resp.playerIndex)
   /\ HoleInRange(rounds[resp.id], resp.holeIndex))
  => /\ resp.status = 200
     /\ rounds[resp.id].players[resp.playerIndex.n + 1]
          .scores[resp.holeIndex.n + 1] = resp.score

\* C5 witness: the creator's update of a slot held by another identity was
\* answered 'Score updated'
C5_Witness ==
  /\ resp.op = "score"
  /\ resp.status = 200
  /\ resp.user = rounds[resp.id].createdBy
  /\ rounds[resp.id].players[resp.playerIndex.n + 1].userId
       \notin {NoUser, resp.user}
  /\ \E i \in DOMAIN rounds[resp.id].players :
       rounds[resp.id].players[i].userId = NoUser

-----------------------------------------------------------------------------
(* Properties of the single-score update (specification SpecValue) *)

\* the caller passes the filter of the findOne and the permission check
MayEdit(round, pidx, u) ==
  /\ creatorOrParticipant(round, u)
  /\ HasIndex(round.players, pidx)
  /\ ~notAuthorized(round, round.players[pidx.n + 1], u)

\* C13: a score update whose playerIndex is no index of the players, or (by a
\* caller who may edit the slot) whose holeIndex is no index of the holes:
\* negative, past the end, not an integer or missing, fails with 400
\* 'Invalid player index' or 'Invalid hole index', changes nothing in the
\* store and emits nothing.
C13_OutOfRangeRefused ==
  [][\A u \in ValueUsers, id \in RoundIds, pidx \in PlayerIndexInputs,
        hidx \in ValueHoleInputs, score \in ScoreInputs :
       (/\ creatorOrParticipant(rounds[id], u)
        /\ \/ ~HasIndex(rounds[id].players, pidx)
           \/ MayEdit(rounds[id], pidx, u) /\ ~HoleInRange(rounds[id], hidx)
        /\ PutScore(u, id, pidx, hidx, score))
       => IF ~HasIndex(rounds[id].players, pidx)
          THEN Refused(400, ErrInvalidPlayer)
          ELSE Refused(400, ErrInvalidHole)]_vars

\* C14: every stored score and every score of an emitted event is a
\* non-negative integer, whatever the score of the request was.
C14_ScoresNonNegative ==
  /\ \A id \in RoundIds : \A i \in DOMAIN rounds[id].players :
       \A h \in DOMAIN rounds[id].players[i].scores :
         rounds[id].players[i].scores[h] >= 0
  /\ \A k \in DOMAIN emitted : emitted[k].score >= 0

\* the integer a score of a request body stands for: the number without its
\* fraction, 0 for what is no number
Coerced(x) == IF x.t \in {"int", "frac"} THEN x.n ELSE 0

\* C15: a score update on a player index and a hole index of the round by a
\* caller who may edit the slot is not answered with an error: it is saved
\* and answered 'Score updated'; the cell of the stored round then holds the
\* coerced integer of the request, which is also the score answered; and the
\* save of an update whose value the cell already holds leaves the stored
\* round as it is.
C15_ReadAfterWrite ==
  [][/\ (/\ Idle
         /\ resp'.op = "score"
         /\ resp'.status \notin {0, 200}
         /\ resp'.id \in RoundIds)
        => ~(/\ MayEdit(rounds[resp'.id], resp'.playerIndex, resp'.user)
             /\ HoleInRange(rounds[resp'.id], resp'.holeIndex))
     /\ \A q \in BagToSet(inflight' (-) inflight) :
          q.op = "score"
          => \A score \in ScoreInputs :
               PutScore(q.user, q.id, q.playerIndex, q.holeIndex, score)
               => q.val = Coerced(score)
     /\ \A q \in BagToSet(inflight) :
          (q.op = "score" /\ HoleInRange(rounds[q.id], q.holeIndex))
          => LET old == rounds[q.id].players[q.playerIndex.n + 1].scores
                 new == rounds'[q.id].players[q.playerIndex.n + 1].scores
                 h == q.holeIndex.n + 1
             IN /\ Save(q) =>
                     /\ new[h] = q.val
                     /\ (h <= Len(old) /\ old[h] = q.val) => rounds' = rounds
                /\ Respond(q) =>
                     /\ resp'.status = 200
                     /\ resp'.score = q.val
                     /\ new = old
                     /\ old[h] = q.val]_vars

\* C15 witness: the repeat of an update is waiting for its save: the cell
\* already holds its value, which is not the 0 of a padded cell
C15_Witness ==
  \E q \in BagToSet(inflight) :
    /\ q.op = "score"
    /\ q.pc = "saving"
    /\ q.delta.kind = "cell"
    /\ q.user # Owner
    /\ q.val = 1
    /\ rounds[q.id].players[q.delta.slot].scores[q.delta.hole] = q.val

\* C16: the save of a score update on hole index h of a player with L scores
\* leaves, if L <= h, h + 1 scores: the L old ones, then 0 at the positions
\* L .. h - 1; if L > h it leaves L scores.
C16_ZeroPadding ==
  [][\A q \in BagToSet(inflight) :
       (Save(q) /\ q.op = "score" /\ HoleInRange(rounds[q.id], q.holeIndex))
       => LET old == rounds[q.id].players[q.playerIndex.n + 1].scores
              new == rounds'[q.id].players[q.playerIndex.n + 1].scores
              h == q.holeIndex.n
              L == Len(old)
          IN IF L <= h
             THEN /\ Len(new) = h + 1
                  /\ \A j \in 1 .. L : new[j] = old[j]
                  /\ \A j \in L + 1 .. h : new[j] = 0
             ELSE Len(new) = L]_vars

\* C16 witness: an update of hole index 1 of a player without scores has been
\* saved: the scores are 0 and the value
C16_Witness ==
  \E q \in BagToSet(inflight) :
    /\ q.op = "score"
    /\ q.pc = "saved"
    /\ q.delta.kind = "scores"
    /\ q.val # 0
    /\ rounds[q.id].players[q.delta.slot].scores = <<0, q.val>>

\* the save of request q wrote what event ev reports
PersistedBy(q, ev) ==
  /\ ev.room = q.id
  /\ ev.playerIndex = q.playerIndex
  /\ HasIndex(rounds[q.id].players, ev.playerIndex)
  /\ CASE q.op = "score" ->
            /\ ev.type = "score-update"
            /\ ev.holeIndex.t = "int"
            /\ q.delta.slot = ev.playerIndex.n + 1
            /\ \/ /\ q.delta.kind = "cell"
                  /\ q.delta.hole = ev.holeIndex.n + 1
                  /\ q.delta.val = ev.score
               \/ /\ q.delta.kind = "scores"
                  /\ ev.holeIndex.n + 1 \in DOMAIN q.delta.scores
                  /\ q.delta.scores[ev.holeIndex.n + 1] = ev.score
       [] q.op = "join" ->
            /\ ev.type = "player-joined"
            /\ ev.userId = q.user
            /\ q.delta \in {NoDelta, UserIdDelta(ev.playerIndex.n + 1, q.user)}
       [] OTHER ->
            /\ ev.type = "player-removed"
            /\ q.delta \in {NoDelta, UserIdDelta(ev.playerIndex.n + 1, NoUser)}

\* C17: events are emitted only by the continuation of a request whose save
\* has been executed, one event per request, reporting the player index, the
\* hole index and the score (or the identity) that the save wrote; a step that
\* answers an error emits nothing.
C17_EmitAfterSave ==
  [][/\ emitted' # <<>> =>
          \E q \in BagToSet(inflight) :
            /\ q.pc = "saved"
            /\ Respond(q)
            /\ Len(emitted') = 1
            /\ PersistedBy(q, emitted'[1])
     /\ \A q \in BagToSet(inflight) :
          Respond(q) => (Len(emitted') = 1 /\ resp'.status = 200)
     /\ resp'.status \notin {0, 200} => emitted' = <<>>]_vars

-----------------------------------------------------------------------------
(* Properties of the room of a round (specification SpecRoom) *)

\* every request has been answered and every packet has been received
Settled == inflight = EmptyBag /\ \A c \in Conns : wire[c] = <<>>

\* C18: the score-update events of concurrent updates of one cell are emitted
\* in the order of their saves, so that, once every request is answered and
\* every event received, the first score of the first player that the client
\* of every connection in the room of the round shows is the stored one.
C18_ClientsConverge ==
  Settled =>
    \A c \in Conns, id \in RoundIds :
      (id \in rooms[c] /\ rounds[id].players[1].scores # <<>>)
      => /\ clientPlayers[c][1] # <<>>
         /\ clientPlayers[c][1][1] = rounds[id].players[1].scores[1]

C20_RoomScoped ==
  [][/\ \A q \in BagToSet(inflight) :
          Respond(q)
          => \A c \in Conns :
               wire'[c] = IF q.id \in rooms[c]
                          THEN Append(wire[c],
                                      Packet(EventOf(q), published + 1))
                          ELSE wire[c]
     /\ \A c \in Conns :
          \/ wire'[c] = wire[c]
          \/ wire[c] # <<>> /\ wire'[c] = Tail(wire[c])
                            /\ lastSeen'[c] = Head(wire[c]).n
          \/ \E q \in BagToSet(inflight) :
               Respond(q) /\ q.id \in rooms[c]]_vars

\* C20 witness: an event of the creator's request is on its way to the
\* creator's connection, which is in the room, and not to the other
\* connection, which received the first event of the round, left the room
\* and is in another room
C20_Witness ==
  /\ RoundIds \subseteq rooms[Owner]
  /\ Len(wire[Owner]) = 1
  /\ wire[Owner][1].n = 2
  /\ \E c \in Conns \ {Owner} :
       /\ rooms[c] = {NoSuchId}
       /\ lastSeen[c] = 1
       /\ wire[c] = <<>>

-----------------------------------------------------------------------------
(* Properties of the handshake (specification SpecSocket) *)

\* C21: a connection attempt without a token is refused with 'Authentication
\* required' and one whose token fails verification with 'Invalid token', in
\* both cases with no change to any room; and every member of every room is an
\* open connection that carries the identity of a token verified when the
\* connection was opened.
C21_OnlyVerifiedInRooms ==
  [][/\ \A c \in Conns, token \in TokenInputs :
          Connect(c, token)
          => /\ token.kind = "none"
                  => sockets'[c] = RefusedSocket(ErrAuthRequired)
             /\ token.kind = "forged"
                  => sockets'[c] = RefusedSocket(ErrInvalidToken)
             /\ rooms' = rooms
     /\ \A c \in Conns :
          rooms'[c] # {}
          => /\ sockets'[c].state = "open"
             /\ sockets'[c].userId \in Users
             /\ \/ sockets[c] = sockets'[c]
                \/ \E u \in Users : Connect(c, SignedToken(u))]_vars

\* C21 witness: one connection was refused for a token that fails
\* verification and is in no room, while another one is open and in a room
C21_Witness ==
  \E c, d \in Conns :
    /\ sockets[c] = RefusedSocket(ErrInvalidToken)
    /\ rooms[c] = {}
    /\ sockets[d].state = "open"
    /\ rooms[d] # {}

-----------------------------------------------------------------------------
(* Properties of the share codes (specification SpecCode) *)

\* C22: in every reachable state of the store, under any interleaving of the
\* steps of concurrent POST / and POST /:id/share requests, no two stored
\* rounds carry the same share code.
C22_CodesUnique ==
  \A id1, id2 \in RoundIds :
    (id1 # id2 /\ rounds[id1].shareCode # NoCode)
    => rounds[id1].shareCode # rounds[id2].shareCode

\* C22 witness: two stored rounds carry codes, and a create that had drawn the
\* code of one of them was answered with the rejection of the store
C22_Witness ==
  /\ resp.op = "create"
  /\ resp.error = ErrDuplicateKey
  /\ \E id1, id2 \in RoundIds :
       /\ id1 # id2
       /\ rounds[id1].shareCode # NoCode
       /\ rounds[id2].shareCode # NoCode

\* C23: when the store rejects as a duplicate the save that attaches a fresh
\* code, the request goes back to allocating a code (to save again) instead
\* of failing.
C23_RetryOnDuplicate ==
  [][\A q \in BagToSet(inflight) :
       SaveDuplicateKey(q)
       => \E r \in BagToSet(inflight') :
            /\ r.pc = "allocating"
            /\ CopiesIn(r, inflight') > CopiesIn(r, inflight)]_vars

\* C24: the retries of one code allocation are bounded: no request is still
\* in its generate-and-check loop after MaxTries candidates collided (it has
\* ended with a failure by then).
C24_RetriesBounded ==
  \A q \in BagToSet(inflight) : q.pc = "allocating" => q.tries < MaxTries

\* C25: a share code, once stored on a round, is never changed by any step,
\* and every 'Share code generated' response carries the code stored on the
\* round.
C25_CodeImmutable ==
  [][/\ \A id \in RoundIds :
          rounds[id].shareCode # NoCode
          => rounds'[id].shareCode = rounds[id].shareCode
     /\ (resp'.op = "share" /\ resp'.status = 200)
          => rounds'[resp'.id].shareCode = resp'.code]_vars

\* the lower-case form of a letter of the inputs
LowerChar(c) ==
  CASE c = "A" -> "a"
    [] c = "B" -> "b"
    [] c = "C" -> "c"
    [] OTHER -> c

\* the stored rounds that carry the code, letter case ignored
Carriers(s) ==
  {id \in RoundIds :
     /\ rounds[id].shareCode # NoCode
     /\ Len(rounds[id].shareCode) = Len(s)
     /\ \A i \in DOMAIN s :
          LowerChar(rounds[id].shareCode[i]) = LowerChar(s[i])}

\* C26: GET /lookup/:shareCode answers with exactly the stored round that
\* carries the code, whatever the letter case of the request, and with 404
\* 'Invalid share code' when no stored round carries it.
C26_LookupResolves ==
  [][\A u \in Users, code \in LookupCodeInputs :
       Lookup(u, code)
       => IF Carriers(code.s) = {}
          THEN resp'.status = 404 /\ resp'.error = ErrInvalidCode
          ELSE resp'.status = 200 /\ Carriers(code.s) = {resp'.id}]_vars

\* C26 witness: two stored rounds carry different codes and a lookup was
\* answered with the one created last
C26_Witness ==
  /\ resp.op = "lookup"
  /\ resp.status = 200
  /\ resp.id \in RoundIds \ {FirstId}
  /\ \E id \in RoundIds \ {resp.id} : rounds[id].shareCode # NoCode

-----------------------------------------------------------------------------
(* Properties of the whole-round requests (specification SpecEdit) *)

\* the step answered a PUT /:id of an identity that did not create the round
EditByOtherAnswered ==
  /\ resp'.op = "edit"
  /\ resp'.id \in RoundIds
  /\ rounds[resp'.id].createdBy # resp'.user

WellFormed(round) ==
  /\ round.holes \in {Holes9, Holes18}
  /\ Len(round.players) \in 1 .. 4

\* the document the save of the request would store
WouldStore(q) ==
  IF q.delta.kind = "insert" THEN q.delta.doc
  ELSE [ players |-> IF q.delta.players.t = "array"
                     THEN [i \in 1 .. q.delta.players.n |-> i]
                     ELSE rounds[q.id].players,
         holes |-> IF q.delta.holes.t = "array" THEN q.delta.holes.n
                   ELSE rounds[q.id].holes ]

\* C28: every stored round has 9 or 18 holes and 1 to 4 players after every
\* step of creates, edits, claims, vacates and score updates; the save of a
\* create or an edit that would store another shape changes nothing, and the
\* request is answered 400 with the message of the validator.
C28_ShapeKept ==
  [][/\ \A id \in DOMAIN rounds' : WellFormed(rounds'[id])
     /\ \A q \in BagToSet(inflight) :
          (/\ q.pc = "saving"
           /\ q.delta.kind \in {"insert", "edit"}
           /\ ~WellFormed(WouldStore(q)))
          => /\ rounds' = rounds
             /\ \A r \in BagToSet(inflight') :
                  /\ r.pc # "saved"
                  /\ r.pc = "failed"
                       => r.error \in {ErrHoles, ErrPlayers, ErrHolesPlayers}
     /\ \A q \in BagToSet(inflight) :
          (q.pc = "failed" /\ RespondError(q))
          => (resp'.status = 400 /\ resp'.error = q.error)]_vars

\* C28 witness: an edit was answered 400 with a message of the validators,
\* and a create with the message for both arrays before it; two rounds are
\* stored
C28_Witness ==
  /\ resp.op = "edit"
  /\ resp.status = 400
  /\ resp.error \in {ErrHoles, ErrPlayers}
  /\ Cardinality(RoundIds) = 2

\* C30: every kind of error has its own reason string; in particular the
\* reasons of a round that is not found, 'Round not found' and 'Round not
\* found or not authorized', are returned only to requests that name a round
\* the store does not hold, never to a request refused because its caller is
\* not the creator or not a participant of a stored round.
C30_DistinctReasons ==
  [][(/\ resp'.status >= 400
      /\ resp'.error \in {ErrNotFound, ErrNotFoundOrAuth})
     => resp'.id \notin RoundIds]_vars

-----------------------------------------------------------------------------
(* Failures of the save (specification SpecRoom) *)

\* C29: when the save of a score update fails (the store cannot be reached,
\* or no document has the version asked for), nothing is stored, the request
\* is not saved again, it is answered 500 with the message of the error, and
\* no score-update event is emitted or sent to any client for it.
C29_SaveFailureReported ==
  [][\A q \in BagToSet(inflight) :
       q.op = "score"
       => /\ (SaveUnavailable(q) \/ SaveVersionError(q))
               => /\ rounds' = rounds
                  /\ emitted' = <<>>
                  /\ wire' = wire
                  /\ resp' = NoResp
          /\ (q.pc = "failed" /\ CopiesIn(q, inflight') < CopiesIn(q, inflight))
               => /\ inflight' = Remove(q)
                  /\ resp'.op = "score"
                  /\ resp'.status = 500
                  /\ resp'.error = q.error
                  /\ rounds' = rounds
                  /\ emitted' = <<>>
                  /\ wire' = wire
                  /\ published' = published]_vars

\* C29 witness: a score update was answered 500 because the store could not
\* be reached; the round still has the score it had, no event was emitted,
\* and a client in the room of the round has nothing on its way
C29_Witness ==
  /\ resp.op = "score"
  /\ resp.status = 500
  /\ resp.error = ErrUnavailable
  /\ emitted = <<>>
  /\ published = 0
  /\ \E c \in Conns : resp.id \in rooms[c] /\ wire[c] = <<>>

-----------------------------------------------------------------------------
(* Properties of the code generator (specification SpecGenerate) *)

\* the upper-case letters without I and O, and the digits 2 to 9
Unambiguous ==
  { "A", "B", "C", "D", "E", "F", "G", "H", "J", "K", "L", "M", "N", "P",
    "Q", "R", "S", "T", "U", "V", "W", "X", "Y", "Z" }
  \cup {"2", "3", "4", "5", "6", "7", "8", "9"}

IssuedOk(code) ==
  code # NoCode => (Len(code) = 6 /\ \A i \in DOMAIN code : code[i] \in Unambiguous)

\* C32: every code the allocator returns (kept by a request, stored on a
\* round or returned by a share) has exactly 6 characters, each an upper-case
\* letter other than I and O or a digit from 2 to 9; and a lookup of a stored
\* code, which upper-cases it, is answered with a round that carries it.
C32_CodesWellFormed ==
  [][/\ \A q \in BagToSet(inflight') : IssuedOk(q.code)
     /\ \A id \in DOMAIN rounds' : IssuedOk(rounds'[id].shareCode)
     /\ IssuedOk(resp'.code)
     /\ resp'.op = "lookup"
          => /\ resp'.status = 200
             /\ resp'.id \in RoundIds
             /\ rounds[resp'.id].shareCode # NoCode]_vars

\* C32 witness: a round carries a code made of the first and the last
\* character of the alphabet and of the neighbours of I and O, and a lookup
\* was answered with it
C32_Witness ==
  /\ resp.op = "lookup"
  /\ resp.status = 200
  /\ rounds[resp.id].shareCode = <<"A", "9", "H", "J", "Z", "9">>

-----------------------------------------------------------------------------
(* Properties of the client (specification SpecClient) *)

\* the value a client shows or the store holds in a cell, EmptyItem if the
\* sequence does not reach the cell
CellOf(scores, h) == IF h <= Len(scores) THEN scores[h] ELSE EmptyItem

\* C31: when the client of a connection receives a score-update event for a
\* cell of a player it shows, it shows the score of the event in that cell
\* afterwards, whatever it showed before (a score entered locally after the
\* one of the event included), and every other cell it shows is unchanged.
C31_EventOverwritesLocal ==
  [][\A c \in Conns :
       (/\ Deliver(c)
        /\ Head(wire[c]).ev.type = "score-update"
        /\ HasIndex(clientPlayers[c], Head(wire[c]).ev.playerIndex))
       => LET ev == Head(wire[c]).ev
              slot == ev.playerIndex.n + 1
              hole == ev.holeIndex.n + 1
          IN /\ clientPlayers'[c][slot][hole] = ev.score
             /\ DOMAIN clientPlayers'[c] = DOMAIN clientPlayers[c]
             /\ \A i \in DOMAIN clientPlayers[c] :
                  \A h \in DOMAIN clientPlayers[c][i] :
                    (i # slot \/ h # hole)
                    => clientPlayers'[c][i][h] = clientPlayers[c][i][h]]_vars

\* C31 witness: a client has received the event of its first update and
\* shows its score, while the update it entered after it, with another
\* score, still waits for its save
C31_Witness ==
  \E c \in Conns :
    /\ lastSeen[c] > 0
    /\ wire[c] = <<>>
    /\ \E q \in BagToSet(inflight) :
         /\ q.op = "score"
         /\ q.user = sockets[c].userId
         /\ q.pc = "saving"
         /\ q.val # clientPlayers[c][1][1]
         /\ clientPlayers[c][1][1] = rounds[q.id].players[1].scores[1]

\* C37: when a score update of a client is answered with an error and
\* nothing else is in flight (no request, no event on its way), the client
\* shows in that cell the value the store holds.
C37_RejectedNotKept ==
  [][\A c \in Conns :
       (/\ resp'.op = "score"
        /\ resp'.status >= 400
        /\ sockets[c].state = "open"
        /\ resp'.user = sockets[c].userId
        /\ resp'.id \in rooms[c]
        /\ Settled')
       => CellOf(clientPlayers'[c][resp'.playerIndex.n + 1],
                 resp'.holeIndex.n + 1)
          = CellOf(rounds'[resp'.id].players[resp'.playerIndex.n + 1].scores,
                   resp'.holeIndex.n + 1)]_vars

-----------------------------------------------------------------------------
(* The read of a claim and its save (specification Spec) *)

\* C33: a claim is saved only on conditions checked against a read made
\* immediately before the save, not on its first read alone: when the save of
\* a claim is made after every other request has been answered, the slot is
\* not taken by another identity and the caller holds no other slot in the
\* round as stored.
C33_RecheckedBeforeSave ==
  [][\A q \in BagToSet(inflight) :
       (/\ q.op = "join"
        /\ q.delta.kind = "userId"
        /\ BagCardinality(inflight) = 1
        /\ Save(q))
       => /\ ~slotTaken(rounds[q.id].players[q.delta.slot], q.user)
          /\ ~duplicateClaim(findIndexUser(rounds[q.id].players, q.user),
                             q.playerIndex)]_vars

-----------------------------------------------------------------------------
(* Concurrent updates of one round (specification SpecCells) *)

\* what a request writes: a cell of a player, or the userId of a player
PartOf(q) ==
  IF q.op = "score" THEN <<"cell", q.playerIndex.n, q.holeIndex.n>>
  ELSE <<"userId", q.playerIndex.n, 0>>

\* the round holds what the request wrote
Held(q, round) ==
  LET player == round.players[q.playerIndex.n + 1] IN
  CASE q.op = "score" -> CellOf(player.scores, q.holeIndex.n + 1) = q.val
    [] q.op = "join" -> player.userId = q.user
    [] OTHER -> player.userId = NoUser

\* C34: no update is lost across cells: when a score update and another
\* request (a score update of a different cell, a claim or a vacate) of the
\* same round run concurrently and both are saved, the stored round holds
\* what both wrote: the save of the second leaves what the first wrote in
\* place.
C34_NoLostUpdate ==
  [][\A q \in BagToSet(inflight), q2 \in BagToSet(inflight) :
       (/\ q.op = "score" \/ q2.op = "score"
        /\ q2.pc = "saved"
        /\ q.id = q2.id
        /\ PartOf(q) # PartOf(q2)
        /\ Held(q2, rounds[q.id])
        /\ Save(q))
       => Held(q2, rounds'[q.id])]_vars

\* C35: no score of an identity that is not the creator is saved to a slot
\* the identity does not hold when the save is made (a score update read
\* before the creator vacated the slot is not written after the vacate is
\* stored), and the save does not bind the slot again.
C35_OccupantAtSave ==
  [][\A q \in BagToSet(inflight) :
       (/\ q.op = "score"
        /\ q.delta.kind # "none"
        /\ ~isAdmin(rounds[q.id], q.user)
        /\ Save(q))
       => /\ rounds[q.id].players[q.playerIndex.n + 1].userId = q.user
          /\ rounds'[q.id].players[q.playerIndex.n + 1].userId
               = rounds[q.id].players[q.playerIndex.n + 1].userId]_vars

-----------------------------------------------------------------------------
(* Two rounds (specification SpecRecords) *)

\* the identity holds a slot of the round
HoldsSlot(round, u) == \E i \in DOMAIN round.players : round.players[i].userId = u

\* C40: the check for a second slot looks at one round only: a claim of an
\* Open slot of a round by an identity that holds no slot of that round is
\* accepted whatever slots the identity holds in other rounds, and the save of
\* a claim leaves every other round unchanged.
C40_DuplicateClaimPerRound ==
  [][/\ \A u \in Users, id \in RoundIds, k \in 0 .. NumPlayers - 1 :
          (/\ rounds[id].shareCode # NoCode
           /\ k < Len(rounds[id].players)
           /\ rounds[id].players[k + 1].userId = NoUser
           /\ ~HoldsSlot(rounds[id], u)
           /\ PostJoin(u, [def |-> TRUE, s |-> rounds[id].shareCode], Whole(k)))
          => /\ resp'.status = 0
             /\ \E q \in BagToSet(inflight') :
                  /\ q.op = "join" /\ q.user = u /\ q.id = id
                  /\ q.delta = UserIdDelta(k + 1, u)
     /\ \A q \in BagToSet(inflight) :
          (q.op = "join" /\ Save(q))
          => /\ rounds'[q.id].players[q.playerIndex.n + 1].userId = q.user
             /\ \A id \in RoundIds \ {q.id} : rounds'[id] = rounds[id]]_vars

\* an identity holds a slot in each of two rounds, the second of which it
\* claimed while it held the first
C40_Witness ==
  \E u \in Users :
    /\ HoldsSlot(rounds[FirstId], u)
    /\ HoldsSlot(rounds[SecondId], u)
    /\ rounds[FirstId].createdBy # u
    /\ rounds[SecondId].createdBy # u
    /\ resp.op = "join" /\ resp.status = 200 /\ resp.user = u

\* C39: the save of a score update changes only the scores of its player
\* (and the version of the round): the scores of the other players, every
\* name and userId, the holes, the creator and the share code of the round
\* and every other round are unchanged; the save of a claim changes only the
\* userId of its player.
C39_SaveFrame ==
  [][\A q \in BagToSet(inflight) :
       /\ (q.op = "score" /\ Save(q))
          => [rounds' EXCEPT
                ![q.id].players[q.playerIndex.n + 1].scores =
                  rounds[q.id].players[q.playerIndex.n + 1].scores,
                ![q.id].v = rounds[q.id].v] = rounds
       /\ (q.op = "join" /\ Save(q))
          => [rounds' EXCEPT
                ![q.id].players[q.playerIndex.n + 1].userId =
                  rounds[q.id].players[q.playerIndex.n + 1].userId] = rounds]_vars

\* a score update and a claim have been saved in a round whose other player
\* has scores, while another round is stored
C39_Witness ==
  /\ \E q \in BagToSet(inflight) :
       /\ q.op = "score" /\ q.pc = "saved" /\ q.delta.kind # "none"
       /\ \E i \in DOMAIN rounds[q.id].players :
            /\ i # q.playerIndex.n + 1
            /\ rounds[q.id].players[i].scores # <<>>
       /\ HoldsSlot(rounds[q.id], Owner + 2)
  /\ Cardinality(RoundIds) > 1

-----------------------------------------------------------------------------
(* The bindings under an edit (specification SpecEdit) *)

\* the userId of a slot of the round, NoUser if the round has no such slot
BoundTo(round, i) ==
  IF i \in DOMAIN round.players THEN round.players[i].userId ELSE NoUser

\* C36: the save of an edit by the creator, whatever players its body
\* carries, changes the userId of no slot: bindings change only through a
\* claim or a vacate.
C36_EditKeepsBindings ==
  [][\A q \in BagToSet(inflight) :
       (q.op = "edit" /\ Save(q))
       => \A i \in 1 .. 4 :
            BoundTo(rounds'[q.id], i) = BoundTo(rounds[q.id], i)]_vars

-----------------------------------------------------------------------------
(* Who receives the events of a round (specification SpecRoom) *)

\* C38: a connection receives the events of a round only while its identity
\* is the creator of the round or holds a slot of it: every event sent to a
\* connection is an event of a round its identity can read when the event is
\* sent.
C38_EventsToRelatedOnly ==
  [][\A c \in Conns :
       Len(wire'[c]) > Len(wire[c])
       => creatorOrParticipant(rounds[wire'[c][Len(wire'[c])].ev.room],
                               sockets[c].userId)]_vars

====
